---- MODULE Spec2Model ----
(***************************************************************************)
(* A model of goodproxy: a pool of daemon threads (test_proxy) that drains *)
(* a queue.Queue of proxy addresses, probes each through urllib, classifies*)
(* the echoed headers and appends a row to the shared good_proxies list,   *)
(* while main loads the list, starts the echo server, spawns the threads,  *)
(* joins the queue and saves the results.                                  *)
(*                                                                         *)
(* Python strings are modelled as sequences of one-character strings, so   *)
(* that upper(), strip(), concatenation and substring tests are computed.  *)
(***************************************************************************)
EXTENDS Integers, Sequences, FiniteSets, TLC

\* ------------------------------------------------------------------ bounds
\* largest value of args.threads explored
MaxThreads == 2
\* largest number of lines in the proxy file explored
MaxLines == 2

\* ------------------------------------------------------------- str helpers
LowerLetters == <<"a","b","c","d","e","f","g","h","i","j","k","l","m",
                  "n","o","p","q","r","s","t","u","v","w","x","y","z">>
UpperLetters == <<"A","B","C","D","E","F","G","H","I","J","K","L","M",
                  "N","O","P","Q","R","S","T","U","V","W","X","Y","Z">>

\* str.upper() on one character
UpperChar(c) ==
    IF \E i \in 1..26 : LowerLetters[i] = c
    THEN UpperLetters[CHOOSE i \in 1..26 : LowerLetters[i] = c]
    ELSE c

\* str.upper()
Upper(s) == [i \in 1..Len(s) |-> UpperChar(s[i])]

\* the `sub in s` test on two str
Contains(sub, s) ==
    \E i \in 1..(Len(s) - Len(sub) + 1) : SubSeq(s, i, i + Len(sub) - 1) = sub

Digits == <<"0","1","2","3","4","5","6","7","8","9">>

RECURSIVE StrInt(_)
\* str(n) for an int n >= 0
StrInt(n) ==
    IF n < 10 THEN <<Digits[n + 1]>>
    ELSE StrInt(n \div 10) \o <<Digits[(n % 10) + 1]>>

Whitespace == {" ", "\t", "\n", "\r"}

RECURSIVE LStrip(_)
LStrip(s) ==
    IF s # <<>> /\ Head(s) \in Whitespace THEN LStrip(Tail(s)) ELSE s

RECURSIVE RStrip(_)
RStrip(s) ==
    IF s # <<>> /\ s[Len(s)] \in Whitespace
    THEN RStrip(SubSeq(s, 1, Len(s) - 1)) ELSE s

\* str.strip()
Strip(s) == LStrip(RStrip(s))

\* ------------------------------------------------- header analysis (pure)
\* A decoded header list is a sequence of pairs <<name, value>>.

\* header_keys = set([item[0].upper() for item in headers_json])
HeaderKeys(headers_json) ==
    {Upper(headers_json[i][1]) : i \in 1..Len(headers_json)}

\* header_values = [item[1].upper() for item in headers_json]
HeaderValues(headers_json) ==
    [i \in 1..Len(headers_json) |-> Upper(headers_json[i][2])]

ShapeOk_AcceptAll(headers_json) == TRUE

\* the sanity check: NOT (len(header_keys) != len(header_values))
ShapeOk(headers_json) ==
    Cardinality(HeaderKeys(headers_json)) = Len(HeaderValues(headers_json))

s_FORWARD == <<"F","O","R","W","A","R","D">>
s_VIA     == <<"V","I","A">>
s_PROXY   == <<"P","R","O","X","Y">>

\* wanip + ":" + str(port)
WanAddr(wanip_, port_) == wanip_ \o <<":">> \o StrInt(port_)

\* the if / elif / else that sets proxy_type
Classify(headers_json, wanip_, port_) ==
    IF \E i \in 1..Len(headers_json) :
           HeaderValues(headers_json)[i] = WanAddr(wanip_, port_)
    THEN "Transparent"
    ELSE IF \E key \in HeaderKeys(headers_json) :
                \/ Contains(s_FORWARD, Upper(key))
                \/ Contains(s_VIA, Upper(key))
                \/ Contains(s_PROXY, Upper(key))
         THEN "Anonymous"
         ELSE "Elite"


\* ------------------------------------------------------------ the inputs
ip_9999 == <<"9",".","9",".","9",".","9">>
ip_host == <<"h","o","s","t">>
ip_HOST == <<"H","O","S","T">>

\* the k-th line of the proxy file: "pk:80\n"
FileLine(k) == <<"p", Digits[k + 1], ":", "8", "0", "\n">>

\* the proxy files explored: 0..MaxLines lines, one distinct address each
ProxyFiles == {[k \in 1..n |-> FileLine(k)] : n \in 0..MaxLines}

Workers == 1..MaxThreads

n_XFF    == <<"X","-","F","o","r","w","a","r","d","e","d","-","F","o","r">>
n_Via    == <<"V","i","a">>
n_VIA    == <<"V","I","A">>
n_via    == <<"v","i","a">>
n_Accept == <<"A","c","c","e","p","t">>
n_PConn  == <<"P","r","o","x","y","-","C","o","n","n">>
n_XReal  == <<"X","-","R","e","a","l">>
v_1234   == <<"1",".","2",".","3",".","4">>
v_any    == <<"*","/","*">>
v_pl     == <<"p",".","l">>

\* What urlopen(...).read().decode() can hand back, by what json.loads and
\* the two list comprehensions then make of it:
\*   "notjson"  text json.loads rejects
\*   "scalar"   JSON that cannot be iterated (a number, null)
\*   "badlist"  JSON with an element item[0].upper() or item[1].upper()
\*              raises on ([1], [["a"]], [[1, 2]])
\*   "list"     JSON the comprehensions succeed on, read as the pairs
\*              <<item[0], item[1]>> held in items: a list of [name, value]
\*              pairs (and what iterates alike: {} as [], ["ab"] as [["a","b"]])
Body(kind, items) == [kind |-> kind, items |-> items]
NoBody == Body("none", <<>>)

\* the bodies a probe of the pool receives
Bodies ==
    { Body("notjson", <<>>), Body("scalar", <<>>),
      Body("list", << <<n_XFF, v_1234>> >>),
      Body("list", << <<n_Via, v_pl>>, <<n_Via, v_1234>> >>) }

NoItem == [id |-> 0, ip |-> <<>>]
NoOpener == <<"-">>

VARIABLES
    file,             \* args.file's lines
    threads,          \* args.threads
    wanip,            \* args.wanip
    port,             \* args.port
    mainpc,           \* where main is
    spawned,          \* number of worker threads started so far
    serving,          \* the echo server is bound and serving
    interrupted,      \* join was left through KeyboardInterrupt
    result_file,      \* result.csv: whether written, and its rows
    proxy_list,       \* queue.Queue: the items not yet taken
    unfinished_tasks, \* queue.Queue.unfinished_tasks
    opener,           \* urllib.request._opener: the proxy the installed opener uses
    lock,             \* threading.Lock: the worker holding it, or 0
    good_proxies,     \* the shared result list
    pc,               \* each worker's position in test_proxy
    cur,              \* each worker's proxy_ip (with the item's enqueue index)
    via,              \* the proxy each worker's request went through
    response,         \* each worker's response
    headers_json,     \* each worker's headers_json
    proxy_type,       \* each worker's proxy_type
    gets,             \* history: per item, how many times get() returned it
    dones,            \* history: per item, task_done() calls made for it
    outcome,          \* history: per item, what its probe received
    request,          \* the request the echo server's handler is given
    reply             \* what the handler sent back for it

vars == <<file, threads, wanip, port, mainpc, spawned, serving, interrupted,
          result_file, proxy_list, unfinished_tasks, opener, lock,
          good_proxies, pc, cur, via, response, headers_json, proxy_type,
          gets, dones, outcome, request, reply>>

args == <<file, threads, wanip, port>>
mainvars == <<mainpc, spawned, serving, interrupted, result_file>>
locals == <<cur, via, response, headers_json, proxy_type>>
history == <<gets, dones, outcome>>
oracle == <<request, reply>>

NoRequest == [method |-> "", path |-> <<>>, headers |-> <<>>]
NoReply == [status |-> 0, ctype |-> "", body |-> <<>>]

Items == 1..Len(file)

\* main before its first statement has run: the queue, the lock and the
\* lists are constructed, no thread exists
Idle ==
    /\ mainpc = "load"
    /\ spawned = 0
    /\ serving = FALSE
    /\ interrupted = FALSE
    /\ result_file = [written |-> FALSE, rows |-> <<>>]
    /\ proxy_list = <<>>
    /\ unfinished_tasks = 0
    /\ opener = NoOpener
    /\ lock = 0
    /\ good_proxies = <<>>
    /\ pc = [w \in Workers |-> "unstarted"]
    /\ cur = [w \in Workers |-> NoItem]
    /\ via = [w \in Workers |-> NoOpener]
    /\ response = [w \in Workers |-> NoBody]
    /\ headers_json = [w \in Workers |-> <<>>]
    /\ proxy_type = [w \in Workers |-> ""]
    /\ gets = [i \in Items |-> 0]
    /\ dones = [i \in Items |-> 0]
    /\ outcome = [i \in Items |-> "none"]
    /\ request = NoRequest
    /\ reply = NoReply

Init ==
    /\ file \in ProxyFiles
    /\ threads \in 1..MaxThreads
    /\ wanip = ip_9999
    /\ port = 80
    /\ Idle


\* ------------------------------------------------------------------ main
NextAfterLoad_SkipServer == "spawn"

\* main's statement after loadProxyList: simpleserver.start, before any thread
NextAfterLoad == "server"

\* loadProxyList: proxy_list.put(line.strip()) for every line of the file;
\* each put also counts one unfinished task
LoadProxyList ==
    /\ mainpc = "load"
    /\ proxy_list' = proxy_list \o
                     [k \in 1..Len(file) |-> [id |-> k, ip |-> Strip(file[k])]]
    /\ unfinished_tasks' = unfinished_tasks + Len(file)
    /\ mainpc' = NextAfterLoad
    /\ UNCHANGED <<args, oracle, spawned, serving, interrupted, result_file, opener,
                   lock, good_proxies, pc, locals, history>>

\* simpleserver.start(args.port): the server is bound and its thread started
StartServer ==
    /\ mainpc = "server"
    /\ serving' = TRUE
    /\ mainpc' = "spawn"
    /\ UNCHANGED <<args, oracle, spawned, interrupted, result_file, proxy_list,
                   unfinished_tasks, opener, lock, good_proxies, pc, locals,
                   history>>

SpawnMore_OneTooMany(started, n) == started <= n

\* `for _ in range(args.threads)` has another turn to make
SpawnMore(started, n) == started < n

\* one turn of `for _ in range(args.threads)`: a daemon thread running
\* test_proxy is started; after the last one main goes on to the join
SpawnWorker ==
    /\ mainpc = "spawn"
    /\ SpawnMore(spawned, threads)
    /\ spawned' = spawned + 1
    /\ pc' = [pc EXCEPT ![spawned + 1] = "get"]
    /\ mainpc' = IF SpawnMore(spawned + 1, threads) THEN "spawn" ELSE "join"
    /\ UNCHANGED <<args, oracle, serving, interrupted, result_file, proxy_list,
                   unfinished_tasks, opener, lock, good_proxies, locals,
                   history>>

QueueJoinReady_WhenEmpty(q, n) == q = <<>>

\* queue.Queue.join() waits while unfinished_tasks is not zero
QueueJoinReady(q, n) == n = 0

\* proxy_list.join() returns
Join ==
    /\ mainpc = "join"
    /\ QueueJoinReady(proxy_list, unfinished_tasks)
    /\ mainpc' = "save"
    /\ UNCHANGED <<args, oracle, spawned, serving, interrupted, result_file,
                   proxy_list, unfinished_tasks, opener, lock, good_proxies,
                   pc, locals, history>>

AfterInterrupt_Exit == "done"

\* where `except KeyboardInterrupt: print("Finished")` leaves main: at the
\* saveResults call that follows the try statement
AfterInterrupt == "save"

\* a KeyboardInterrupt is raised in main while it is inside proxy_list.join()
KeyboardInterrupt ==
    /\ mainpc = "join"
    /\ interrupted' = TRUE
    /\ mainpc' = AfterInterrupt
    /\ UNCHANGED <<args, oracle, spawned, serving, result_file, proxy_list,
                   unfinished_tasks, opener, lock, good_proxies, pc, locals,
                   history>>

\* saveResults(good_proxies), after which main returns and the process, with
\* its daemon threads, ends
SaveResults ==
    /\ mainpc = "save"
    /\ result_file' = [written |-> TRUE, rows |-> good_proxies]
    /\ mainpc' = "done"
    /\ UNCHANGED <<args, oracle, spawned, serving, interrupted, proxy_list,
                   unfinished_tasks, opener, lock, good_proxies, pc, locals,
                   history>>

\* ------------------------------------------------------------ test_proxy
\* the process is alive, so its daemon threads run
Running == mainpc # "done"

\* `continue`: back to the top of `while True`; the locals of the finished
\* turn are dead and are cleared
LoopBack(w) ==
    /\ pc' = [pc EXCEPT ![w] = "get"]
    /\ cur' = [cur EXCEPT ![w] = NoItem]
    /\ via' = [via EXCEPT ![w] = NoOpener]
    /\ response' = [response EXCEPT ![w] = NoBody]
    /\ headers_json' = [headers_json EXCEPT ![w] = <<>>]
    /\ proxy_type' = [proxy_type EXCEPT ![w] = ""]

QueueRest_Peek(q) == q

\* what get() leaves in the queue
QueueRest(q) == Tail(q)

\* proxy_ip = proxy_list.get(): blocks while the queue is empty
Get(w) ==
    /\ Running
    /\ pc[w] = "get"
    /\ proxy_list # <<>>
    /\ cur' = [cur EXCEPT ![w] = Head(proxy_list)]
    /\ proxy_list' = QueueRest(proxy_list)
    /\ gets' = [gets EXCEPT ![Head(proxy_list).id] = @ + 1]
    /\ pc' = [pc EXCEPT ![w] = "install"]
    /\ UNCHANGED <<args, oracle, mainvars, unfinished_tasks, opener, lock,
                   good_proxies, via, response, headers_json, proxy_type,
                   dones, outcome>>

\* urllib.request.install_opener(build_opener(ProxyHandler({'http': proxy_ip})))
\* sets the module-wide opener of urllib.request
InstallOpener(w) ==
    /\ Running
    /\ pc[w] = "install"
    /\ opener' = cur[w].ip
    /\ pc' = [pc EXCEPT ![w] = "urlopen"]
    /\ UNCHANGED <<args, oracle, mainvars, proxy_list, unfinished_tasks, lock,
                   good_proxies, locals, history>>

\* urllib.request.urlopen(request, timeout).read().decode("utf-8"): the
\* request goes through whatever opener is installed at that moment; it
\* raises (URLError; HTTPError, socket.error, HTTPException; anything else)
\* and the worker continues, or it returns a body
UrlOpen(w) ==
    /\ Running
    /\ pc[w] = "urlopen"
    /\ \/ /\ \E err \in {"URLError", "HTTPException", "other"} : TRUE
          /\ outcome' = [outcome EXCEPT ![cur[w].id] = "transport"]
          /\ LoopBack(w)
       \/ /\ \E body \in Bodies : response' = [response EXCEPT ![w] = body]
          /\ via' = [via EXCEPT ![w] = opener]
          /\ pc' = [pc EXCEPT ![w] = "process"]
          /\ UNCHANGED <<cur, headers_json, proxy_type, outcome>>
    /\ UNCHANGED <<args, oracle, mainvars, proxy_list, unfinished_tasks, opener, lock,
                   good_proxies, gets, dones>>

DecodeFails_Never(body) == FALSE

\* json.loads(response) raises
DecodeFails(body) == body.kind = "notjson"

\* item[0].upper() / item[1].upper() raises for some item, or the decoded
\* value cannot be iterated
ParseRaises(body) == body.kind \in {"scalar", "badlist"}

\* the number of distinct names of a pair list equals the number of values
CountMatched(items) ==
    Cardinality({items[i][1] : i \in 1..Len(items)}) = Len(items)

\* what the probe of an item received, by the body alone
Received(body) ==
    CASE body.kind = "notjson" -> "undecodable"
      [] body.kind \in {"scalar", "badlist"} -> "malformed"
      [] OTHER -> IF CountMatched(body.items) THEN "matched" ELSE "mismatched"

\* from json.loads to the choice of proxy_type: all on the worker's locals
Process(w) ==
    /\ Running
    /\ pc[w] = "process"
    /\ outcome' = [outcome EXCEPT ![cur[w].id] = Received(response[w])]
    /\ \/ /\ DecodeFails(response[w])
          /\ LoopBack(w)
       \/ /\ ~DecodeFails(response[w])
          /\ ParseRaises(response[w])
          \* no handler: the exception ends the thread
          /\ pc' = [pc EXCEPT ![w] = "dead"]
          /\ UNCHANGED locals
       \/ /\ ~DecodeFails(response[w])
          /\ ~ParseRaises(response[w])
          /\ ~ShapeOk(response[w].items)
          /\ LoopBack(w)
       \/ /\ ~DecodeFails(response[w])
          /\ ~ParseRaises(response[w])
          /\ ShapeOk(response[w].items)
          /\ headers_json' = [headers_json EXCEPT ![w] = response[w].items]
          /\ proxy_type' = [proxy_type EXCEPT ![w] =
                               Classify(response[w].items, wanip, port)]
          /\ pc' = [pc EXCEPT ![w] = "lock"]
          /\ UNCHANGED <<cur, via, response>>
    /\ UNCHANGED <<args, oracle, mainvars, proxy_list, unfinished_tasks, opener, lock,
                   good_proxies, gets, dones>>

LockFree_Always(holder) == TRUE

\* threading.Lock.acquire() goes through only while nobody holds the lock
LockFree(holder) == holder = 0

\* `with lock:` entered
AcquireLock(w) ==
    /\ Running
    /\ pc[w] = "lock"
    /\ LockFree(lock)
    /\ lock' = w
    /\ pc' = [pc EXCEPT ![w] = "append"]
    /\ UNCHANGED <<args, oracle, mainvars, proxy_list, unfinished_tasks, opener,
                   good_proxies, locals, history>>

\* the row appended: "proxy_ip,proxy_type,elapsed,headers_json"; the elapsed
\* time is left out, id and via are history
Row(w) ==
    [id |-> cur[w].id, proxy_ip |-> cur[w].ip, proxy_type |-> proxy_type[w],
     headers |-> headers_json[w], via |-> via[w]]

ListAppend_Twice(rows, row) == Append(Append(rows, row), row)

ListAppend_Lost(rows, row) == rows

\* list.append
ListAppend(rows, row) == Append(rows, row)

\* good_proxies.append(...) and the end of the `with` block
AppendResult(w) ==
    /\ Running
    /\ pc[w] = "append"
    /\ lock = w
    /\ good_proxies' = ListAppend(good_proxies, Row(w))
    /\ lock' = 0
    /\ pc' = [pc EXCEPT ![w] = "task_done"]
    /\ UNCHANGED <<args, oracle, mainvars, proxy_list, unfinished_tasks, opener,
                   locals, history>>

\* proxy_list.task_done(), then the next turn of the loop
TaskDone(w) ==
    /\ Running
    /\ pc[w] = "task_done"
    /\ unfinished_tasks' = unfinished_tasks - 1
    /\ dones' = [dones EXCEPT ![cur[w].id] = @ + 1]
    /\ LoopBack(w)
    /\ UNCHANGED <<args, oracle, mainvars, proxy_list, opener, lock, good_proxies,
                   gets, outcome>>

Next ==
    \/ LoadProxyList
    \/ StartServer
    \/ SpawnWorker
    \/ Join
    \/ KeyboardInterrupt
    \/ SaveResults
    \/ \E w \in Workers : Get(w)
    \/ \E w \in Workers : InstallOpener(w)
    \/ \E w \in Workers : UrlOpen(w)
    \/ \E w \in Workers : Process(w)
    \/ \E w \in Workers : AcquireLock(w)
    \/ \E w \in Workers : AppendResult(w)
    \/ \E w \in Workers : TaskDone(w)

Spec == Init /\ [][Next]_vars


\* one step of worker w
WorkerStep(w) ==
    \/ Get(w) \/ InstallOpener(w) \/ UrlOpen(w) \/ Process(w)
    \/ AcquireLock(w) \/ AppendResult(w) \/ TaskDone(w)

\* one step of main; a KeyboardInterrupt comes from outside and is not one
MainStep ==
    LoadProxyList \/ StartServer \/ SpawnWorker \/ Join \/ SaveResults

\* Fair scheduling: a thread that can take a step eventually takes one.
\* Nothing obliges the operator to interrupt.
FairSpec ==
    /\ Spec
    /\ WF_vars(MainStep)
    /\ \A w \in Workers : WF_vars(WorkerStep(w))

\* ------------------------------------- the header analysis on its inputs
\* largest number of header pairs in a decoded list explored
MaxHeaders == 2

WanIps == {ip_9999, ip_host, ip_HOST}
Ports == {80, 8080}

HeaderNames == {n_XFF, n_Via, n_via, n_Accept, n_PConn, n_XReal}

v_9999_80 == ip_9999 \o <<":","8","0">>
v_host_80 == ip_host \o <<":","8","0">>
v_Host_80 == <<"H","o","s","t",":","8","0">>
v_HOST_8080 == ip_HOST \o <<":","8","0","8","0">>

HeaderVals == {v_1234, v_any, v_9999_80, v_host_80, v_Host_80, v_HOST_8080}

HeaderPairs == {<<n, v>> : n \in HeaderNames, v \in HeaderVals}

HeaderLists == UNION {[1..n -> HeaderPairs] : n \in 0..MaxHeaders}

\* every kind of body, with every header list
ClassifyBodies ==
    { Body("notjson", <<>>), Body("scalar", <<>>), Body("badlist", <<>>) }
    \cup { Body("list", h) : h \in HeaderLists }

\* The pool with one thread, which has taken the only item, installed its
\* opener and received a body: the state in which the analysis starts.
ClassifyInit ==
    /\ file = <<FileLine(1)>>
    /\ threads = 1
    /\ wanip \in WanIps
    /\ port \in Ports
    /\ mainpc = "join"
    /\ spawned = 1
    /\ serving = TRUE
    /\ interrupted = FALSE
    /\ result_file = [written |-> FALSE, rows |-> <<>>]
    /\ proxy_list = <<>>
    /\ unfinished_tasks = 1
    /\ opener = Strip(FileLine(1))
    /\ lock = 0
    /\ good_proxies = <<>>
    /\ pc = [w \in Workers |-> IF w = 1 THEN "process" ELSE "unstarted"]
    /\ cur = [w \in Workers |->
                 IF w = 1 THEN [id |-> 1, ip |-> Strip(FileLine(1))] ELSE NoItem]
    /\ via = [w \in Workers |-> IF w = 1 THEN Strip(FileLine(1)) ELSE NoOpener]
    /\ \E body \in ClassifyBodies :
           response = [w \in Workers |-> IF w = 1 THEN body ELSE NoBody]
    /\ headers_json = [w \in Workers |-> <<>>]
    /\ proxy_type = [w \in Workers |-> ""]
    /\ gets = [i \in Items |-> 1]
    /\ dones = [i \in Items |-> 0]
    /\ outcome = [i \in Items |-> "none"]
    /\ request = NoRequest
    /\ reply = NoReply

ClassifyNext == \E w \in Workers : Process(w)

SpecClassify == ClassifyInit /\ [][ClassifyNext]_vars


\* ------------------------------------------- loadProxyList on its inputs
\* largest number of lines of a proxy file with blank lines explored
MaxLoadLines == 3

\* lines as iterating the file yields them: an address, an address with
\* blanks around it, an empty line, a line of blanks, a last line without \n
LoadLines ==
    { FileLine(1),
      <<" ", "p", "2", ":", "8", "0", " ", "\n">>,
      <<"\n">>,
      <<" ", "\t", "\n">>,
      <<"p", "3", ":", "8", "0">> }

LoadFiles == UNION {[1..n -> LoadLines] : n \in 0..MaxLoadLines}

LoadInit ==
    /\ file \in LoadFiles
    /\ threads = 1
    /\ wanip = ip_9999
    /\ port = 80
    /\ Idle

LoadNext == LoadProxyList

SpecLoad == LoadInit /\ [][LoadNext]_vars

\* -------------------------------------------------------- the echo server
\* the characters used, in code point order (what str comparison goes by)
CodeOrder ==
    <<"\t", "\n", " ", "\"", "*", ",", "-", ".", "/",
      "0", "1", "2", "3", "4", "5", "6", "7", "8", "9", ":", "<", ">",
      "A", "B", "C", "D", "E", "F", "G", "H", "I", "J", "K", "L", "M",
      "N", "O", "P", "Q", "R", "S", "T", "U", "V", "W", "X", "Y", "Z",
      "[", "\\", "]",
      "a", "b", "c", "d", "e", "f", "g", "h", "i", "j", "k", "l", "m",
      "n", "o", "p", "q", "r", "s", "t", "u", "v", "w", "x", "y", "z">>

Ord(c) == CHOOSE i \in 1..Len(CodeOrder) : CodeOrder[i] = c

RECURSIVE StrLess(_, _)
\* a < b on two str
StrLess(a, b) ==
    IF b = <<>> THEN FALSE
    ELSE IF a = <<>> THEN TRUE
    ELSE IF Head(a) = Head(b) THEN StrLess(Tail(a), Tail(b))
    ELSE Ord(Head(a)) < Ord(Head(b))

\* a < b on two (name, value) tuples
PairLess(a, b) ==
    \/ StrLess(a[1], b[1])
    \/ a[1] = b[1] /\ StrLess(a[2], b[2])

RECURSIVE Insert(_, _)
Insert(p, sorted) ==
    IF sorted = <<>> THEN <<p>>
    ELSE IF PairLess(p, Head(sorted)) THEN <<p>> \o sorted
    ELSE <<Head(sorted)>> \o Insert(p, Tail(sorted))

RECURSIVE InsertAll(_, _)
InsertAll(items, acc) ==
    IF items = <<>> THEN acc
    ELSE InsertAll(Tail(items), Insert(Head(items), acc))

Sorted_AsReceived(items) == items

\* sorted(self.headers.items())
Sorted(items) == InsertAll(items, <<>>)

\* how the JSON encoder writes one character of a str
EscapeChar(c) ==
    CASE c = "\"" -> <<"\\", "\"">>
      [] c = "\\" -> <<"\\", "\\">>
      [] c = "\t" -> <<"\\", "t">>
      [] c = "\n" -> <<"\\", "n">>
      [] OTHER -> <<c>>

RECURSIVE EscapeAll(_)
EscapeAll(str) ==
    IF str = <<>> THEN <<>> ELSE EscapeChar(Head(str)) \o EscapeAll(Tail(str))

\* a str as JSON text
EncodeStr(str) == <<"\"">> \o EscapeAll(str) \o <<"\"">>

\* a (name, value) tuple as JSON text: ["name", "value"]
EncodePair(p) ==
    <<"[">> \o EncodeStr(p[1]) \o <<",", " ">> \o EncodeStr(p[2]) \o <<"]">>

RECURSIVE EncodePairs(_)
EncodePairs(items) ==
    IF items = <<>> THEN <<>>
    ELSE IF Len(items) = 1 THEN EncodePair(items[1])
    ELSE EncodePair(Head(items)) \o <<",", " ">> \o EncodePairs(Tail(items))

\* json.JSONEncoder().encode(items) for a list of tuples of str
JsonEncode(items) == <<"[">> \o EncodePairs(items) \o <<"]">>

\* ---- json.loads, for texts that are a list of two-str lists
ParseFail == [ok |-> FALSE, val |-> <<>>, pos |-> 0]
Parsed(v, i) == [ok |-> TRUE, val |-> v, pos |-> i]

RECURSIVE SkipWs(_, _)
SkipWs(t, i) ==
    IF i <= Len(t) /\ t[i] \in Whitespace THEN SkipWs(t, i + 1) ELSE i

At(t, i, c) == i <= Len(t) /\ t[i] = c

RECURSIVE ScanString(_, _, _)
\* the characters of a JSON string from position i, after its opening quote
ScanString(t, i, acc) ==
    IF i > Len(t) THEN ParseFail
    ELSE IF t[i] = "\"" THEN Parsed(acc, i + 1)
    ELSE IF t[i] = "\\" THEN
        IF i + 1 > Len(t) THEN ParseFail
        ELSE IF t[i + 1] \in {"\"", "\\", "/"}
             THEN ScanString(t, i + 2, Append(acc, t[i + 1]))
        ELSE IF t[i + 1] = "t" THEN ScanString(t, i + 2, Append(acc, "\t"))
        ELSE IF t[i + 1] = "n" THEN ScanString(t, i + 2, Append(acc, "\n"))
        ELSE ParseFail
    ELSE IF t[i] \in {"\t", "\n"} THEN ParseFail
    ELSE ScanString(t, i + 1, Append(acc, t[i]))

ParseStr(t, i) == IF At(t, i, "\"") THEN ScanString(t, i + 1, <<>>) ELSE ParseFail

\* ["name", "value"] from position i
ParsePair(t, i) ==
    IF ~At(t, i, "[") THEN ParseFail
    ELSE LET n == ParseStr(t, SkipWs(t, i + 1)) IN
         IF ~n.ok THEN ParseFail
         ELSE LET c == SkipWs(t, n.pos) IN
              IF ~At(t, c, ",") THEN ParseFail
              ELSE LET v == ParseStr(t, SkipWs(t, c + 1)) IN
                   IF ~v.ok THEN ParseFail
                   ELSE LET e == SkipWs(t, v.pos) IN
                        IF At(t, e, "]")
                        THEN Parsed(<<n.val, v.val>>, e + 1)
                        ELSE ParseFail

RECURSIVE ParsePairs(_, _, _)
\* the elements of the outer list from position i, up to its closing bracket
ParsePairs(t, i, acc) ==
    LET p == ParsePair(t, i) IN
    IF ~p.ok THEN ParseFail
    ELSE LET j == SkipWs(t, p.pos) IN
         IF At(t, j, "]") THEN Parsed(Append(acc, p.val), j + 1)
         ELSE IF At(t, j, ",")
              THEN ParsePairs(t, SkipWs(t, j + 1), Append(acc, p.val))
              ELSE ParseFail

\* json.loads(text): the list of pairs, or not ok (any other text)
JsonLoads(t) ==
    LET i == SkipWs(t, 1) IN
    IF ~At(t, i, "[") THEN ParseFail
    ELSE LET j == SkipWs(t, i + 1)
             r == IF At(t, j, "]") THEN Parsed(<<>>, j + 1)
                  ELSE ParsePairs(t, j, <<>>)
         IN IF r.ok /\ SkipWs(t, r.pos) = Len(t) + 1 THEN r ELSE ParseFail

HasHandler_AnyMethod(method) == TRUE

\* BaseHTTPRequestHandler looks up 'do_' + command; MyHandler has do_GET only
HasHandler(method) == method = "GET"

\* do_GET: 200, Content-Type, the sorted header items as JSON, then "\n"
DoGet(req) ==
    [status |-> 200, ctype |-> "application/json",
     body |-> JsonEncode(Sorted(req.headers)) \o <<"\n">>]

\* send_error(501): the base class's answer to a command without a handler
Unsupported(req) ==
    [status |-> 501, ctype |-> "text/html",
     body |-> <<"<", "h", "t", "m", "l", ">">>]

\* largest number of headers in a request explored
MaxEchoHeaders == 2

Methods == {"GET", "POST", "HEAD", "CONNECT"}
Paths == {<<"/">>, <<"/", "x">>}
v_odd == <<"a", "\"", "\\", "]", ",", "\t", "b">>
EchoPairs == {<<n, v>> : n \in {n_Via, n_via, n_Accept}, v \in {v_any, v_odd, v_pl}}
EchoHeaderLists == UNION {[1..n -> EchoPairs] : n \in 0..MaxEchoHeaders}

Requests ==
    {[method |-> m, path |-> p, headers |-> h] :
        m \in Methods, p \in Paths, h \in EchoHeaderLists}

\* main has loaded an empty list and started the server, which has read a
\* request and is about to dispatch it
OracleInit ==
    /\ file = <<>>
    /\ threads = 1
    /\ wanip = ip_9999
    /\ port = 80
    /\ mainpc = "spawn"
    /\ spawned = 0
    /\ serving = TRUE
    /\ interrupted = FALSE
    /\ result_file = [written |-> FALSE, rows |-> <<>>]
    /\ proxy_list = <<>>
    /\ unfinished_tasks = 0
    /\ opener = NoOpener
    /\ lock = 0
    /\ good_proxies = <<>>
    /\ pc = [w \in Workers |-> "unstarted"]
    /\ cur = [w \in Workers |-> NoItem]
    /\ via = [w \in Workers |-> NoOpener]
    /\ response = [w \in Workers |-> NoBody]
    /\ headers_json = [w \in Workers |-> <<>>]
    /\ proxy_type = [w \in Workers |-> ""]
    /\ gets = [i \in Items |-> 0]
    /\ dones = [i \in Items |-> 0]
    /\ outcome = [i \in Items |-> "none"]
    /\ request \in Requests
    /\ reply = NoReply

\* handle_one_request: dispatch on the method, answer
HandleRequest ==
    /\ serving
    /\ request # NoRequest
    /\ reply = NoReply
    /\ reply' = IF HasHandler(request.method) THEN DoGet(request)
                ELSE Unsupported(request)
    /\ UNCHANGED <<args, mainvars, proxy_list, unfinished_tasks, opener, lock,
                   good_proxies, pc, locals, history, request>>

OracleNext == HandleRequest

SpecOracle == OracleInit /\ [][OracleNext]_vars

\* ================================================================ claims
Holding(w) == cur[w].id # 0
RowIds == {good_proxies[k].id : k \in 1..Len(good_proxies)}
QueueIds == {proxy_list[k].id : k \in 1..Len(proxy_list)}

\* C1: every candidate a worker took from the queue has had task_done
\* reported for it exactly once by the time that worker has let go of it
\* (gone back to get), whatever the probe's outcome; and never more than once.
C1_GetThenTaskDone ==
    \A i \in Items :
        /\ dones[i] <= 1
        /\ (gets[i] >= 1 /\ \A w \in Workers : cur[w].id # i) => dones[i] = 1

\* C2: under fair scheduling the run completes: main leaves the join and
\* the results are saved, whatever the probes' outcomes.
C2_RunCompletes == <>(mainpc = "done")

\* C3: when join has returned normally, the queue is empty, the outstanding
\* counter is zero, every enqueued candidate has exactly one completion
\* recorded and no worker still holds a dequeued candidate.
C3_JoinReturnsOnlyWhenDrained ==
    (mainpc \in {"save", "done"} /\ ~interrupted) =>
        /\ proxy_list = <<>>
        /\ unfinished_tasks = 0
        /\ \A i \in Items : dones[i] = 1
        /\ \A w \in Workers : ~Holding(w)

\* a normal return of join from a run of two candidates and two threads
C3_Witness ==
    /\ mainpc = "save"
    /\ ~interrupted
    /\ Len(file) >= 2
    /\ threads >= 2
    /\ Len(good_proxies) >= 2

\* C4: the request a worker sends for its candidate goes through that
\* candidate, and so does the probe every recorded row describes.
C4_ProbeThroughOwnCandidate ==
    /\ \A w \in Workers :
           pc[w] \in {"process", "lock", "append", "task_done"} =>
               via[w] = cur[w].ip
    /\ \A k \in 1..Len(good_proxies) :
           good_proxies[k].via = good_proxies[k].proxy_ip

\* C5: no started worker ever terminates: the live workers are all the
\* started ones.
C5_WorkersNeverTerminate ==
    \A w \in 1..spawned : pc[w] # "dead"

\* the level the classification rules give: Transparent when some value
\* equals "<wanip>:<port>", else Anonymous when some name contains FORWARD,
\* VIA or PROXY in any letter case, else Elite
RuleLevel(headers, wanip_, port_) ==
    IF \E i \in 1..Len(headers) : headers[i][2] = WanAddr(wanip_, port_)
    THEN "Transparent"
    ELSE IF \E i \in 1..Len(headers) :
                \/ Contains(s_FORWARD, Upper(headers[i][1]))
                \/ Contains(s_VIA, Upper(headers[i][1]))
                \/ Contains(s_PROXY, Upper(headers[i][1]))
         THEN "Anonymous"
         ELSE "Elite"

\* C6: the level chosen for a header list is the one the rules give, with
\* the address-leak rule first, for every headers, wanip and port.
C6_ClassifyByRules ==
    \A w \in Workers :
        pc[w] = "lock" =>
            proxy_type[w] = RuleLevel(headers_json[w], wanip, port)

\* C7: a header value equal to "<wanip>:<port>" up to letter case makes the
\* level Transparent, for every wanip, also one that contains letters.
C7_LeakTestIgnoresCase ==
    \A w \in Workers :
        (/\ pc[w] = "lock"
         /\ \E i \in 1..Len(headers_json[w]) :
                Upper(headers_json[w][i][2]) = Upper(WanAddr(wanip, port)))
        => proxy_type[w] = "Transparent"

\* C8: a payload whose number of distinct names differs from its number of
\* values never gets a row: every row belongs to a candidate whose payload
\* was a count-matched pair list, and the aggregator is no larger than the
\* number of such candidates.
C8_MismatchDiscarded ==
    /\ \A i \in RowIds : outcome[i] = "matched"
    /\ Len(good_proxies) <= Cardinality({i \in Items : outcome[i] = "matched"})

\* a mismatched payload was discarded and its worker moved on, while another
\* candidate's row was recorded
C8_Witness ==
    \E i \in Items :
        /\ outcome[i] = "mismatched"
        /\ \A w \in Workers : cur[w].id # i
        /\ Len(good_proxies) >= 1

\* C9: a candidate whose probe ended in a transport failure or in a body
\* that cannot be decoded has no row in the aggregator, then or later.
C9_FailedProbeAddsNothing ==
    \A i \in Items :
        outcome[i] \in {"transport", "undecodable"} => i \notin RowIds

\* one candidate failed in transport, another could not be decoded, both
\* workers have moved on and nothing was recorded
C9_Witness ==
    \E i, j \in Items :
        /\ outcome[i] = "transport"
        /\ outcome[j] = "undecodable"
        /\ \A w \in Workers : ~Holding(w)
        /\ good_proxies = <<>>

\* C10: an item is taken from the queue at most once, is held by at most
\* one worker, is not in the queue while held, and is not in the queue again
\* once its probe has ended.
C10_ExactlyOnceDispatch ==
    /\ \A i \in Items : gets[i] <= 1
    /\ \A w1, w2 \in Workers :
           (w1 # w2 /\ Holding(w1)) => cur[w1].id # cur[w2].id
    /\ \A w \in Workers : Holding(w) => cur[w].id \notin QueueIds
    /\ \A i \in Items : outcome[i] # "none" => i \notin QueueIds

\* a worker whose probe failed in transport is back at get, its item is
\* gone from the queue, and another worker holds the other item
C10_Witness ==
    \E i \in Items, w1, w2 \in Workers :
        /\ w1 # w2
        /\ outcome[i] = "transport"
        /\ gets[i] = 1
        /\ pc[w2] = "get"
        /\ Holding(w1)
        /\ cur[w1].id # i

\* C11: the aggregator holds at most one row per enqueued item, so it is
\* never longer than the number of enqueued candidates.
C11_OneRowPerItem ==
    /\ \A k, l \in 1..Len(good_proxies) :
           k # l => good_proxies[k].id # good_proxies[l].id
    /\ RowIds \subseteq Items
    /\ Len(good_proxies) <= Len(file)

\* every one of two or more candidates has its row
C11_Witness ==
    /\ Len(file) >= 2
    /\ Len(good_proxies) = Len(file)

\* C12: at most one worker is inside the append critical section, and it
\* holds the lock; the aggregator has exactly one row per append made (the
\* completed candidates and those whose worker stands right after its append).
C12_AppendsExclusive ==
    /\ Cardinality({w \in Workers : pc[w] = "append"}) <= 1
    /\ \A w \in Workers : pc[w] = "append" => lock = w
    /\ Len(good_proxies) =
           Cardinality({i \in Items : dones[i] >= 1})
           + Cardinality({w \in Workers : pc[w] = "task_done"})

\* one worker is inside the critical section while another waits for the lock
C12_Witness ==
    \E w1, w2 \in Workers :
        /\ pc[w1] = "append"
        /\ lock = w1
        /\ pc[w2] = "lock"

\* C13 as stated: whenever main is about to read the aggregator, on any
\* path, the pool has drained: the queue is empty, nothing is outstanding
\* and no worker holds a candidate.
C13_ReadOnlyAfterDrain ==
    mainpc = "save" =>
        /\ proxy_list = <<>>
        /\ unfinished_tasks = 0
        /\ \A w \in Workers : ~Holding(w)

\* C13 amended: when join returned normally, main reads the aggregator with
\* every started worker back at get, and what it wrote is the whole
\* aggregator: nothing was appended after the read.
C13_ReadAfterDrainOnNormalReturn ==
    /\ (mainpc \in {"save", "done"} /\ ~interrupted) =>
           \A w \in 1..spawned : pc[w] = "get"
    /\ (result_file.written /\ ~interrupted) =>
           result_file.rows = good_proxies

\* results written after a normal return of join
C13_Witness ==
    /\ mainpc = "done"
    /\ ~interrupted
    /\ result_file.written
    /\ Len(result_file.rows) >= 1

IsPrefix(a, b) == Len(a) <= Len(b) /\ SubSeq(b, 1, Len(a)) = a

\* C14: an interrupt during the join takes main to the save; from the
\* interrupt to the save the aggregator only grows at its end, and the save
\* writes all of it, so every row appended before the interrupt is written.
C14_InterruptStillSaves ==
    [][ /\ (~interrupted /\ interrupted') =>
               (mainpc = "join" /\ mainpc' = "save")
        /\ (interrupted /\ mainpc = "save") =>
               /\ IsPrefix(good_proxies, good_proxies')
               /\ mainpc' \in {"save", "done"}
               /\ mainpc' = "done" =>
                      /\ result_file'.written
                      /\ result_file'.rows = good_proxies ]_vars

\* results written after an interrupt, with a row in them
C14_Witness ==
    /\ interrupted
    /\ result_file.written
    /\ Len(result_file.rows) >= 1

\* C17: the echo server is bound and serving in every state in which a
\* worker thread exists or a candidate has been dequeued.
C17_ServerUpBeforeDispatch ==
    /\ \A w \in Workers : pc[w] # "unstarted" => serving
    /\ \A i \in Items : gets[i] >= 1 => serving

\* a first candidate has been dequeued
C17_Witness ==
    /\ serving
    /\ \E i \in Items : gets[i] = 1
    /\ \E w \in Workers : pc[w] = "install"

\* C18: never more than N threads are started, exactly N once main is past
\* the loop, and at most N probes are in flight.
C18_ExactlyNWorkers ==
    /\ spawned <= threads
    /\ mainpc \in {"join", "save", "done"} => spawned = threads
    /\ Cardinality({w \in Workers : pc[w] # "unstarted"}) = spawned
    /\ Cardinality({w \in Workers : pc[w] \in {"install", "urlopen"}})
           <= threads

\* with one thread and two candidates, one probe is in flight and the other
\* candidate waits in the queue
C18_Witness ==
    /\ threads = 1
    /\ proxy_list # <<>>
    /\ \E w \in Workers : pc[w] = "urlopen"

\* the completions recorded by the queue
Completions == IF mainpc = "load" THEN 0 ELSE Len(file) - unfinished_tasks

\* C20: a completion is reported only for a candidate whose row is in the
\* aggregator; the completions never exceed the aggregator's size, which
\* never exceeds the completions plus N.
C20_AppendBeforeCompletion ==
    /\ \A i \in Items : dones[i] >= 1 => i \in RowIds
    /\ Completions <= Len(good_proxies)
    /\ Len(good_proxies) <= Completions + threads

\* a row has been appended whose completion is not yet reported, after
\* another candidate was completed
C20_Witness ==
    /\ Completions >= 1
    /\ Len(good_proxies) = Completions + 1
    /\ \E w \in Workers : pc[w] = "task_done"

\* C19: once the list is loaded the queue holds no empty-string candidate:
\* blank and whitespace-only lines add nothing.
C19_NoBlankCandidate ==
    mainpc # "load" =>
        \A k \in 1..Len(proxy_list) : proxy_list[k].ip # <<>>

Count(items, p) == Cardinality({k \in 1..Len(items) : items[k] = p})

\* C16: the body of an answered GET ends in exactly one newline, and the list
\* decoded from it has the request's header pairs, each as often as the
\* request has it, in ascending order of name.
C16_EchoIsSortedHeaders ==
    (reply # NoReply /\ request.method = "GET") =>
        LET body == reply.body
            d == JsonLoads(body)
        IN  /\ Len(body) >= 3
            /\ body[Len(body)] = "\n"
            /\ body[Len(body) - 1] # "\n"
            /\ d.ok
            /\ d.val = Sorted(request.headers)
            /\ Len(d.val) = Len(request.headers)
            /\ \A p \in EchoPairs : Count(d.val, p) = Count(request.headers, p)
            /\ \A k \in 1..(Len(d.val) - 1) :
                   ~StrLess(d.val[k + 1][1], d.val[k][1])

\* two headers received out of order, one with a value full of characters
\* the encoder escapes, have been echoed
C16_Witness ==
    /\ reply # NoReply
    /\ request.method = "GET"
    /\ Len(request.headers) = 2
    /\ StrLess(request.headers[2][1], request.headers[1][1])
    /\ request.headers[1][2] = v_odd

====
